---- MODULE Spec2Model ----
(***************************************************************************)
(* Model of titanic/features/fill.py: RandomAgeImputer (fit, transform),   *)
(* age_imputer and fill_age, together with the process-wide numpy random   *)
(* generator that transform seeds and draws from.                          *)
(*                                                                         *)
(* A pandas Series is a record [dtype, vals]; a value v of vals stands for *)
(* the number v / Scale, so that fractional floats exist, and NaN is the   *)
(* missing marker.  Series objects live in a heap addressed by reference,  *)
(* so that X.copy() and astype() yield new objects.                        *)
(***************************************************************************)
EXTENDS Integers, Sequences, FiniteSets

\* ------------------------------------------------------------------ bounds
MaxLen == 2        \* longest input series

Scale == 2                   \* a stored value v stands for v / Scale
NaN == 99                    \* the missing marker (numpy.nan)
NoSeed == -1                 \* random_state = None
RngMod == 4                  \* size of the generator's state space
Ages == 1 .. 2               \* values taken by min_age and max_age
Seeds == {0, 1}              \* non-null random_state values
FloatVals == {Scale + 1}     \* present values of a float64 series: 1 + 1/Scale
IntVals == {Scale}           \* present values of an int64 series: 1

\* ------------------------------------------------------------- the series
SeqsUpTo(S, n) == UNION {[1 .. k -> S] : k \in 0 .. n}

Series(dtype, vals) == [dtype |-> dtype, vals |-> vals]

NoSeries == Series("none", <<>>)

\* The series a caller can pass: a float64 series, with or without missing
\* values, or an int64 series, which cannot hold NaN.
Inputs ==
    {Series("float", v) : v \in SeqsUpTo(FloatVals \cup {NaN}, MaxLen)}
        \cup {Series("int", v) : v \in SeqsUpTo(IntVals, MaxLen)}

\* Series.isna(): the mask of the missing positions.
IsNa(s) == [i \in 1 .. Len(s.vals) |-> s.vals[i] = NaN]

\* missing_mask.sum()
RECURSIVE CountTrue(_)
CountTrue(mask) ==
    IF mask = <<>> THEN 0
    ELSE (IF Head(mask) THEN 1 ELSE 0) + CountTrue(Tail(mask))

NMissing(s) == CountTrue(IsNa(s))

\* X_copy.isna().any()
AnyNa(s) == \E i \in 1 .. Len(s.vals) : s.vals[i] = NaN

\* ------------------------------------------------- the numpy generator
\* One step of the generator's state and the raw number it yields.
Step(g) == (g + 3) % RngMod

Raw(g) == g \div 2

\* np.random.seed(seed): the state is a function of the seed alone.
SeedState(seed) == (3 * seed + 1) % RngMod

\* randint maps a raw number into [low, high + 1): one too many values.
BoundedIncl(raw, low, high) == low + (raw % (high - low + 1))

\* randint maps a raw number into the half-open range [low, high).
Bounded(raw, low, high) == low + (raw % (high - low))

\* np.random.randint raises ValueError("low >= high") on an empty range.
RandIntRaises(low, high) == low >= high

\* np.random.randint(low, high, size=n): n draws, in order, from state g.
RECURSIVE RandInt(_, _, _, _)
RandInt(g, low, high, n) ==
    IF n = 0 THEN [vals |-> <<>>, rng |-> g]
    ELSE LET g1 == Step(g)
             r == RandInt(g1, low, high, n - 1)
         IN [vals |-> <<Bounded(Raw(g1), low, high)>> \o r.vals, rng |-> r.rng]

\* ------------------------------------------------------------ the heap
XRef == 1          \* the caller's series X
CopyRef == 2       \* X_copy
IntRef == 3        \* the result of astype(int)
Refs == {XRef, CopyRef, IntRef}

EmptyHeap == [r \in Refs |-> NoSeries]

HeapWith(X) == [EmptyHeap EXCEPT ![XRef] = X]

\* X_copy = X without a copy: both names denote the caller's object.
CopyAlias(h, ref) == [heap |-> h, ref |-> ref]

\* X.copy(): a new object with the same dtype and values.
Copy(h, ref) == [heap |-> [h EXCEPT ![CopyRef] = h[ref]], ref |-> CopyRef]

\* --------------------------------------------------- RandomAgeImputer
RandomAgeImputer(min_age, max_age, random_state) ==
    [min_age |-> min_age, max_age |-> max_age, random_state |-> random_state]

\* transform without the call of np.random.seed.
SeedRngSkip(cfg, g) == g

\* if self.random_state is not None: np.random.seed(self.random_state)
SeedRng(cfg, g) ==
    IF cfg.random_state # NoSeed THEN SeedState(cfg.random_state) ELSE g

\* The fill and the conversion done whatever n_missing is.
HasMissingAlways(n) == TRUE

\* if n_missing > 0
HasMissing(n) == n > 0

\* Number of missing positions among the first i.
Rank(mask, i) == CountTrue(SubSeq(mask, 1, i))

\* X_copy[missing_mask] = random_ages: the k-th missing position takes the
\* k-th draw; the series keeps its dtype.
SetMasked(s, mask, ages) ==
    Series(s.dtype,
           [i \in 1 .. Len(s.vals) |->
               IF mask[i] THEN ages[Rank(mask, i)] * Scale ELSE s.vals[i]])

\* Conversion of one float to int: the fraction is dropped, toward zero.
Trunc(v) ==
    IF v >= 0 THEN (v \div Scale) * Scale ELSE -(((-v) \div Scale) * Scale)

\* A conversion that leaves the series as it is.
AsTypeKeep(s) == s

\* X_copy.astype(int): a new int64 series.
AsTypeInt(s) == Series("int", [i \in 1 .. Len(s.vals) |-> Trunc(s.vals[i])])

\* fit that seeds the generator.
FitResultReseed(i, cfg, g) == [id |-> i, rng |-> SeedRng(cfg, g)]

\* RandomAgeImputer.fit: returns self, touches nothing.
FitResult(i, cfg, g) == [id |-> i, rng |-> g]

\* RandomAgeImputer.transform on the series at XRef of heap h, the
\* generator being in state g.  kind is "series" (ref is the result) or
\* "error" (randint raised).
TransformRun(cfg, h, g) ==
    LET c == Copy(h, XRef)
        g1 == SeedRng(cfg, g)
        missing_mask == IsNa(c.heap[c.ref])
        n_missing == CountTrue(missing_mask)
    IN  IF HasMissing(n_missing)
        THEN IF RandIntRaises(cfg.min_age, cfg.max_age + 1)
             THEN [heap |-> c.heap, rng |-> g1, kind |-> "error", ref |-> 0]
             ELSE LET d == RandInt(g1, cfg.min_age, cfg.max_age + 1, n_missing)
                      h2 == [c.heap EXCEPT
                                ![c.ref] = SetMasked(@, missing_mask, d.vals)]
                  IN  IF ~AnyNa(h2[c.ref])
                      THEN [heap |-> [h2 EXCEPT ![IntRef] = AsTypeInt(h2[c.ref])],
                            rng |-> d.rng, kind |-> "series", ref |-> IntRef]
                      ELSE [heap |-> h2, rng |-> d.rng, kind |-> "series",
                            ref |-> c.ref]
        ELSE [heap |-> c.heap, rng |-> g1, kind |-> "series", ref |-> c.ref]

\* age_imputer that drops random_state.
AgeImputerUnseeded(min_age, max_age, random_state) ==
    RandomAgeImputer(min_age, max_age, NoSeed)

\* age_imputer: the imputer with the arguments given.
AgeImputer(min_age, max_age, random_state) ==
    RandomAgeImputer(min_age, max_age, random_state)

\* The tables a caller can pass to fill_age: an Age and a Name column.
Tables ==
    {[Age |-> s, Name |-> [i \in 1 .. Len(s.vals) |-> i]] : s \in Inputs}

\* ------------------------------------------------------------ the state
VARIABLES
    imputer,    \* the RandomAgeImputer object the caller holds
    built,      \* the arguments it was constructed with
    rng,        \* state of the process-wide numpy generator
    entropy,    \* TRUE while that state stems from the OS entropy at start
    heap,       \* the series objects of the latest call
    call        \* the latest call: its arguments and its result

vars == <<imputer, built, rng, entropy, heap, call>>

NoCfg == RandomAgeImputer(0, 0, NoSeed)

NoCall ==
    [op |-> "none", self |-> 0, args |-> <<0, 0, NoSeed>>, cfg |-> NoCfg,
     X |-> NoSeries, kind |-> "none", ref |-> 0, out |-> NoSeries]

\* Instance numbers: the caller's imputer, and the one fill_age creates.
Self == 1
Temp == 2

\* The caller has constructed its imputer, RandomAgeImputer(min_age, max_age,
\* random_state); the generator seeded itself from OS entropy at start.
Init ==
    /\ \E lo \in Ages, hi \in Ages, sd \in Seeds \cup {NoSeed} :
          /\ imputer = RandomAgeImputer(lo, hi, sd)
          /\ built = <<lo, hi, sd>>
    /\ rng \in 0 .. RngMod - 1
    /\ entropy = TRUE
    /\ heap = EmptyHeap
    /\ call = NoCall

\* imputer.fit(X)
Fit(X) ==
    LET r == FitResult(Self, imputer, rng)
    IN  /\ rng' = r.rng
        /\ call' = [NoCall EXCEPT !.op = "fit", !.self = Self, !.args = built,
                                  !.cfg = imputer, !.X = X,
                                  !.kind = "imputer", !.ref = r.id]
        /\ heap' = HeapWith(X)
        /\ UNCHANGED <<imputer, built, entropy>>

\* The state a transform leaves, through either entry point.  The generator
\* stops stemming from OS entropy once np.random.seed has been called.
Returned(op, i, args, cfg, X, r) ==
    /\ rng' = r.rng
    /\ entropy' = (entropy /\ cfg.random_state = NoSeed)
    /\ heap' = r.heap
    /\ call' = [op |-> op, self |-> i, args |-> args, cfg |-> cfg, X |-> X,
                kind |-> r.kind, ref |-> r.ref,
                out |-> IF r.kind = "series" THEN r.heap[r.ref] ELSE NoSeries]
    /\ UNCHANGED <<imputer, built>>

\* imputer.transform(X)
Transform(X) ==
    Returned("transform", Self, built, imputer, X,
             TransformRun(imputer, HeapWith(X), rng))

\* fill_age(df, min_age, max_age, random_state):
\* imputer.fit_transform(df["Age"]) is imputer.fit(X).transform(X).
FillAge(df, min_age, max_age, random_state) ==
    LET temp == AgeImputer(min_age, max_age, random_state)
        f == FitResult(Temp, temp, rng)
    IN  Returned("fill_age", f.id, <<min_age, max_age, random_state>>, temp,
                 df.Age, TransformRun(temp, HeapWith(df.Age), f.rng))

Next ==
    \/ \E X \in Inputs : Fit(X)
    \/ \E X \in Inputs : Transform(X)
    \/ \E df \in Tables, lo \in Ages, hi \in Ages, sd \in Seeds \cup {NoSeed} :
          FillAge(df, lo, hi, sd)

Spec == Init /\ [][Next]_vars

\* ----------------------------------------------------------- the claims
\* The latest call ran RandomAgeImputer.transform, directly or under fill_age.
Transformed == call.op \in {"transform", "fill_age"}

ReturnedSeries == Transformed /\ call.kind = "series"

Seeded == call.args[3] # NoSeed

Positions == 1 .. Len(call.X.vals)

GenStates == 0 .. RngMod - 1

\* What transform of an imputer with configuration cfg returns for X when the
\* generator is in state g: a second call, to compare the latest one with.
Direct(cfg, X, g) ==
    LET r == TransformRun(cfg, HeapWith(X), g)
    IN  [kind |-> r.kind,
         out |-> IF r.kind = "series" THEN r.heap[r.ref] ELSE NoSeries]

\* The heap after the caller assigns a new present value to element k of the
\* series at ref.
Write(h, ref, k) ==
    [h EXCEPT ![ref].vals[k] = IF @ = NaN THEN 0 ELSE @ + Scale]

\* C1: transform returns a series of the input's length whose value equals
\* the input's at every position where the input is present.
C1_PresentValuesUnaltered ==
    ReturnedSeries =>
        /\ Len(call.out.vals) = Len(call.X.vals)
        /\ \A i \in Positions :
              call.X.vals[i] # NaN => call.out.vals[i] = call.X.vals[i]

\* C2: with min_age <= max_age and at least one missing input value,
\* transform returns a series without missing values in which every position
\* that was missing holds an integer of [min_age, max_age].
C2_MissingFilledInRange ==
    (Transformed /\ NMissing(call.X) > 0 /\ call.cfg.min_age <= call.cfg.max_age) =>
        /\ call.kind = "series"
        /\ ~AnyNa(call.out)
        /\ \A i \in Positions :
              call.X.vals[i] = NaN =>
                  \E a \in call.cfg.min_age .. call.cfg.max_age :
                      call.out.vals[i] = a * Scale

C2_Witness ==
    /\ ReturnedSeries
    /\ NMissing(call.X) = 2
    /\ call.cfg.min_age < call.cfg.max_age
    /\ call.out.vals[1] # call.out.vals[2]

\* C3: a seeded transform gives the same fill values at the same positions as
\* any other transform with the same random_state, min_age and max_age on an
\* input with the same missing-value pattern, whatever state earlier calls
\* left the generator in.
C3_SeededFillsReproducible ==
    (Transformed /\ Seeded) =>
        \A g \in GenStates, X2 \in Inputs :
            IsNa(X2) = IsNa(call.X) =>
                LET d == Direct(call.cfg, X2, g)
                IN  /\ d.kind = call.kind
                    /\ d.kind = "series" =>
                          \A i \in Positions :
                              call.X.vals[i] = NaN =>
                                  d.out.vals[i] = call.out.vals[i]

C3_Witness ==
    /\ ReturnedSeries
    /\ Seeded
    /\ call.op = "transform"
    /\ NMissing(call.X) = 2
    /\ call.cfg.min_age < call.cfg.max_age
    /\ ~entropy

\* C4: after transform the caller's series is as it was before the call, the
\* returned series is another object, and writing to either of the two does
\* not change the other.
C4_InputNotMutated ==
    Transformed =>
        /\ heap[XRef] = call.X
        /\ call.kind = "series" =>
              /\ call.ref # XRef
              /\ heap[call.ref] = call.out
              /\ \A k \in Positions :
                    /\ Write(heap, XRef, k)[call.ref] = call.out
                    /\ Write(heap, call.ref, k)[XRef] = call.X

C4_Witness ==
    /\ ReturnedSeries
    /\ NMissing(call.X) = 1
    /\ Len(call.X.vals) = 2
    /\ heap[XRef].vals # heap[call.ref].vals

C6_IntegralWheneverComplete ==
    (ReturnedSeries /\ ~AnyNa(call.out)) => call.out.dtype = "int"

\* C6 as amended: when the input has a missing value the output has none and
\* is integral; when it has none the output keeps the input's element type.
C6_IntegralAfterFill ==
    ReturnedSeries =>
        /\ ~AnyNa(call.out)
        /\ NMissing(call.X) > 0 => call.out.dtype = "int"
        /\ NMissing(call.X) = 0 => call.out.dtype = call.X.dtype

C6_Witness ==
    /\ ReturnedSeries
    /\ NMissing(call.X) = Len(call.X.vals)
    /\ Len(call.X.vals) = 2
    /\ call.out.dtype = "int"

\* C7: fill_age with a non-null random_state returns what transform of
\* RandomAgeImputer(min_age, max_age, random_state) returns for the table's
\* Age column, whatever state the generator is in, and leaves the column as
\* it was.
C7_FillAgeIsTransform ==
    (call.op = "fill_age" /\ Seeded) =>
        /\ heap[XRef] = call.X
        /\ \A g \in GenStates :
              LET d == Direct(RandomAgeImputer(call.args[1], call.args[2],
                                               call.args[3]), call.X, g)
              IN  /\ d.kind = call.kind
                  /\ d.out = call.out

C7_Witness ==
    /\ call.op = "fill_age"
    /\ Seeded
    /\ call.kind = "series"
    /\ NMissing(call.X) = 1
    /\ Len(call.X.vals) = 2
    /\ call.args[1] < call.args[2]

\* C8: fit returns the instance it was called on and changes neither the
\* configuration, nor the input, nor the generator; the configuration always
\* equals the arguments of the construction.
C8_FitIsNoOp ==
    [][/\ call'.op = "fit" =>
            /\ call'.kind = "imputer"
            /\ call'.ref = call'.self
            /\ rng' = rng
            /\ heap'[XRef] = call'.X
       /\ imputer' = imputer
       /\ imputer' = RandomAgeImputer(built'[1], built'[2], built'[3])]_vars

C8_Witness ==
    /\ call.op = "fit"
    /\ NMissing(call.X) > 0
    /\ imputer.random_state # NoSeed
    /\ rng # SeedState(imputer.random_state)

\* C9: a transform of an input without missing values leaves the generator
\* in the state it was in, whether random_state is set or not.
C9_NoMissingKeepsGenerator ==
    [][(call'.op \in {"transform", "fill_age"} /\ NMissing(call'.X) = 0) =>
            rng' = rng]_vars

\* C10: an unseeded transform draws its fill values from a generator whose
\* state stems from OS entropy, not from the seed of an earlier transform.
C10_UnseededDrawsFromEntropy ==
    (ReturnedSeries /\ call.cfg.random_state = NoSeed /\ NMissing(call.X) > 0) =>
        entropy

====
